---- MODULE Spec2Model ----
(***************************************************************************)
(* fork-ts-checker-webpack-plugin: the controller (ForkTsCheckerWebpack-   *)
(* Plugin, src/unnamed/part_000), the checker service it forks             *)
(* (src/src/service.ts, and the earlier service of src/unnamed/part_001),  *)
(* the worker-rpc channel between them and the cancellation tokens.        *)
(* apply() and the configuration it validates, the pool coordinator that   *)
(* is forked for more than one worker, the partition of the watched files  *)
(* among the workers' checkers, and the file name wrapper of               *)
(* src/src/wrapperUtils.ts have a specification each.                      *)
(*                                                                         *)
(* Jobs and tokens share one numbering: the job dispatched by the n-th     *)
(* compile event carries token n.  0 stands for `undefined`.               *)
(***************************************************************************)
EXTENDS Integers, Sequences, FiniteSets, TLC

\* ---------------------------------------------------------------- bounds
MaxJobs == 3
MaxServices == 2
MaxLen == 2
MaxCleanups == 2
PoolSize == 3
MaxFiles == 5
MaxExts == 3

Jobs == 1..MaxJobs
Services == 1..MaxServices

\* ------------------------------------------------------ normalized messages
\* A file name is a sequence of segments: the directories of its absolute
\* path, a stem, and extensions.  <<"ctx/", "src/", "a", ".ts">> is
\* /ctx/src/a.ts.
NoFile == <<>>
Dirs == {"ctx/", "src/", "other/", "../"}
SUFFIX_TS == <<".__fake__", ".ts">>

NoCode == -1

TsDiagnostic ==
  [type |-> "diagnostic", num |-> 2322, str |-> "", severity |-> "error",
   file |-> <<"ctx/", "src/", "a", ".ts">>]
LintWarning ==
  [type |-> "lint", num |-> NoCode, str |-> "no-var", severity |-> "warning",
   file |-> <<"ctx/", "src/", "b", ".vue", ".__fake__", ".ts">>]
EsLintWarning ==
  [type |-> "lint", num |-> NoCode, str |-> "no-console",
   severity |-> "warning", file |-> <<"ctx/", "src/", "c", ".ts">>]
InternalError ==
  [type |-> "diagnostic", num |-> NoCode, str |-> "INTERNAL",
   severity |-> "error", file |-> NoFile]

\* what checker.getDiagnostics / getLints / getEsLints may return
TsResults == {<<TsDiagnostic>>}
LintResults == {<<LintWarning>>}
EsLintResults == {<<EsLintWarning>>}

RECURSIVE SelectSeq2(_, _)
SelectSeq2(s, keep) ==
  IF s = <<>> THEN <<>>
  ELSE IF Head(s) \in keep THEN <<Head(s)>> \o SelectSeq2(Tail(s), keep)
       ELSE SelectSeq2(Tail(s), keep)

Range(s) == {s[i] : i \in DOMAIN s}

\* ------------------------------------------------------------- wrapperUtils
EndsWith(f, suf) ==
  /\ Len(f) >= Len(suf)
  /\ SubSeq(f, Len(f) - Len(suf) + 1, Len(f)) = suf

\* path.extname: the last segment, when there is one after the stem
extname(f) ==
  IF Len(f) >= 2 /\ f[Len(f)] \notin Dirs /\ f[Len(f) - 1] \notin Dirs
  THEN f[Len(f)] ELSE ""

wrapFileName(wrapExtensions, fileName) ==
  IF \E ext \in wrapExtensions : EndsWith(fileName, <<ext>>)
  THEN fileName \o SUFFIX_TS
  ELSE fileName

unwrapFileName(wrapExtensions, fileName) ==
  IF EndsWith(fileName, SUFFIX_TS)
  THEN LET realFileName == SubSeq(fileName, 1, Len(fileName) - Len(SUFFIX_TS))
       IN IF extname(realFileName) \in wrapExtensions
          THEN realFileName ELSE fileName
  ELSE fileName

\* no file name given to the wrapper utilities
NoWrapper ==
  [wrapExtensions |-> {}, fileName |-> NoFile, wrapped |-> NoFile,
   unwrapped |-> NoFile, stage |-> "none"]

\* service.ts: the unwrapping of file names applied to lints and diagnostics
UnwrapAll(wrapExtensions, msgs) ==
  [i \in DOMAIN msgs |->
     IF msgs[i].file # NoFile
     THEN [msgs[i] EXCEPT !.file = unwrapFileName(wrapExtensions, @)]
     ELSE msgs[i]]

\* ------------------------------------------------------ cancellation token
NewToken == [created |-> TRUE, requested |-> FALSE, cleanedUp |-> FALSE,
             cleanups |-> 0]
NoToken == [created |-> FALSE, requested |-> FALSE, cleanedUp |-> FALSE,
            cleanups |-> 0]

requestCancellation(tk, j) == [tk EXCEPT ![j].requested = TRUE]

\* `cleanups` counts the invocations
\* a cleanup that flips the flag
cleanupCancellationFlips(tk, j) ==
  [tk EXCEPT ![j].cleanedUp = ~@, ![j].cleanups = @ + 1]

cleanupCancellation(tk, j) ==
  [tk EXCEPT ![j].cleanedUp = TRUE, ![j].cleanups = @ + 1]

isCancellationRequested(tk, j) == tk[j].requested

\* ------------------------------------------------------------- worker: run
Undefined == [kind |-> "undefined", diagnostics |-> <<>>, lints |-> <<>>]
Result(d, l) == [kind |-> "result", diagnostics |-> d, lints |-> l]
RpcError == [kind |-> "error", diagnostics |-> <<>>, lints |-> <<>>]

\* Outcome of one analyzer pass: completed with messages, threw an
\* unexpected fault, or threw OperationCanceledException.
Ok(m) == [st |-> "ok", msgs |-> m]
Fault == [st |-> "fault", msgs |-> <<>>]
Canceled == [st |-> "cancel", msgs |-> <<>>]
Skipped == [st |-> "skipped", msgs |-> <<>>]

TsOutcomes == {Ok(m) : m \in TsResults} \cup {Fault, Canceled, Skipped}
LintOutcomes ==
  {Ok(m) : m \in LintResults \cup EsLintResults}
    \cup {Fault, Canceled, Skipped}
IterOutcomes == {Ok(<<>>), Fault}

\* The environment of the forked service process
Env(m, e, t, v) == [module |-> m, ESLINT |-> e, TSLINT |-> t, VUE |-> v]
Envs ==
  { Env("service", FALSE, FALSE, FALSE), Env("service", FALSE, TRUE, TRUE),
    Env("service", TRUE, TRUE, FALSE), Env("part_001", FALSE, TRUE, FALSE) }

WrapExtensions(e) == IF e.VUE THEN {".vue", ".vuex"} ELSE {}

\* the checker has the linter that was configured at spawn time
hasEsLinter(e) == e.ESLINT
hasLinter(e) == e.TSLINT

\* a run that asks hasLinter() before hasEsLinter()
lintPassPrefersTslint(e) ==
  IF hasLinter(e) THEN "tslint" ELSE IF hasEsLinter(e) THEN "eslint"
  ELSE "none"

\* service.ts, lines 146-150: the lint pass of a run, getEsLints when the
\* checker has an ESLint linter, else getLints when it has a TSLint linter
lintPass(e) ==
  IF hasEsLinter(e) THEN "eslint" ELSE IF hasLinter(e) THEN "tslint"
  ELSE "none"

\* what the lint pass returns when it completes
PassResults(pass) ==
  IF pass = "eslint" THEN EsLintResults
  ELSE IF pass = "tslint" THEN LintResults ELSE {}

\* run() returning right after the fault was packaged, without the final
\* cancellation check
runServiceReturnsAfterFault(e, iter, ts, lint, requested) ==
  LET tsRan == iter.st = "ok"
      lintRan == tsRan /\ ts.st = "ok" /\ lintPass(e) # "none"
      thrown == IF iter.st # "ok" THEN iter.st
                ELSE IF ts.st # "ok" THEN ts.st
                ELSE IF lintRan /\ lint.st # "ok" THEN lint.st
                ELSE "none"
      d0 == IF tsRan /\ ts.st = "ok" THEN ts.msgs ELSE <<>>
      l0 == IF lintRan /\ lint.st = "ok" THEN lint.msgs ELSE <<>>
      wrapped == e.VUE /\ thrown = "none"
      d1 == IF wrapped THEN UnwrapAll(WrapExtensions(e), d0) ELSE d0
      l1 == IF wrapped THEN UnwrapAll(WrapExtensions(e), l0) ELSE l0
      reply == IF thrown = "cancel" THEN Undefined
               ELSE IF thrown = "fault"
               THEN Result(Append(d1, InternalError), l1)
               ELSE IF requested THEN Undefined
               ELSE Result(d1, l1)
  IN [type |-> "resolve", payload |-> reply, tsRan |-> tsRan,
      lintRan |-> lintRan, polled |-> thrown = "none",
      lintPass |-> IF lintRan THEN lintPass(e) ELSE "none"]

\* src/src/service.ts run(): returns the reply and which passes ran.
\*   iter, ts, lint: outcomes of nextIteration, getDiagnostics, the lint pass
\*   requested: what isCancellationRequested() answers after the passes
runService(e, iter, ts, lint, requested) ==
  LET tsRan == iter.st = "ok"
      lintRan == tsRan /\ ts.st = "ok" /\ lintPass(e) # "none"
      thrown == IF iter.st # "ok" THEN iter.st
                ELSE IF ts.st # "ok" THEN ts.st
                ELSE IF lintRan /\ lint.st # "ok" THEN lint.st
                ELSE "none"
      d0 == IF tsRan /\ ts.st = "ok" THEN ts.msgs ELSE <<>>
      l0 == IF lintRan /\ lint.st = "ok" THEN lint.msgs ELSE <<>>
      wrapped == e.VUE /\ thrown = "none"
      d1 == IF wrapped THEN UnwrapAll(WrapExtensions(e), d0) ELSE d0
      l1 == IF wrapped THEN UnwrapAll(WrapExtensions(e), l0) ELSE l0
      d2 == IF thrown = "fault" THEN Append(d1, InternalError) ELSE d1
      reply == IF thrown = "cancel" THEN Undefined
               ELSE IF requested THEN Undefined
               ELSE Result(d2, l1)
  IN [type |-> "resolve", payload |-> reply, tsRan |-> tsRan,
      lintRan |-> lintRan, polled |-> thrown # "cancel",
      lintPass |-> IF lintRan THEN lintPass(e) ELSE "none"]

\* src/unnamed/part_001 run() and its RUN handler
runPart001(e, iter, ts, lint, requested) ==
  LET tsRan == iter.st = "ok"
      lintRan == tsRan /\ ts.st = "ok" /\ e.TSLINT
      thrown == IF iter.st # "ok" THEN iter.st
                ELSE IF ts.st # "ok" THEN ts.st
                ELSE IF lintRan /\ lint.st # "ok" THEN lint.st
                ELSE "none"
      d0 == IF tsRan /\ ts.st = "ok" THEN ts.msgs ELSE <<>>
      l0 == IF lintRan /\ lint.st = "ok" THEN lint.msgs ELSE <<>>
  IN IF thrown = "fault"
     THEN [type |-> "reject", payload |-> RpcError, tsRan |-> tsRan,
           lintRan |-> lintRan, polled |-> FALSE,
           lintPass |-> IF lintRan THEN "tslint" ELSE "none"]
     ELSE [type |-> "resolve",
           payload |-> IF thrown = "cancel" THEN Undefined
                       ELSE IF requested THEN Undefined
                       ELSE Result(d0, l0),
           tsRan |-> tsRan, lintRan |-> lintRan,
           polled |-> thrown # "cancel",
           lintPass |-> IF lintRan THEN "tslint" ELSE "none"]

run(e, iter, ts, lint, requested) ==
  IF e.module = "service" THEN runService(e, iter, ts, lint, requested)
  ELSE runPart001(e, iter, ts, lint, requested)

\* ------------------------------------------------- the work partition
\* The watched files are numbered 1..MaxFiles; a checker is created with
\* the work number and the work division found in its environment.
NaN == NoCode
WorkNumbers == 0..(PoolSize - 1)

\* spawnService, line 660: WORK_DIVISION: String(Math.max(1, workersNumber))
WORK_DIVISION(c) == IF c.workersNumber > 1 THEN c.workersNumber ELSE 1

\* WORK_NUMBER as the process finds it: set by the pool for each of its
\* workers, not set for a service forked by the plugin itself
WORK_NUMBER(c, w) == IF c.workersNumber > 1 THEN w ELSE NaN

\* a checker that takes no work number from its environment
workNumberIgnored(v) == 0

\* createChecker, line 128: parseInt(process.env.WORK_NUMBER!, 10) || 0
workNumber(v) == IF v = NaN \/ v = 0 THEN 0 ELSE v

\* createChecker, line 129: parseInt(process.env.WORK_DIVISION!, 10) || 1
workDivision(v) == IF v = NaN \/ v = 0 THEN 1 ELSE v

\* the files a checker owns: those whose number falls on its work number
Owned(files, number, division) == {f \in files : f % division = number}

NoPartition ==
  [files |-> {}, started |-> {}, owned |-> [w \in WorkNumbers |-> {}]]

\* ------------------------------------------------ the pool coordinator
\* The coordinator of a pool of PoolSize workers fans a job out to every
\* worker, awaits all replies and merges them.
Workers == 1..PoolSize
NoReply == [kind |-> "none", diagnostics |-> <<>>, lints |-> <<>>]
WorkerReplies ==
  {Undefined, Result(<<>>, <<>>), Result(<<TsDiagnostic>>, <<LintWarning>>)}

NoPool == [job |-> 0, replies |-> [w \in Workers |-> NoReply],
           combined |-> NoReply]

RECURSIVE Concat(_, _, _)
Concat(replies, field, w) ==
  IF w > PoolSize THEN <<>>
  ELSE replies[w][field] \o Concat(replies, field, w + 1)

\* a merge that leaves out the workers that were cancelled
CombineSkipsCancelled(replies) ==
  Result(Concat(replies, "diagnostics", 1), Concat(replies, "lints", 1))

\* the combined result: Cancelled if any worker reports Cancelled, else the
\* union of the workers' diagnostics and lints
Combine(replies) ==
  IF \E w \in Workers : replies[w] = Undefined THEN Undefined
  ELSE Result(Concat(replies, "diagnostics", 1), Concat(replies, "lints", 1))

\* ------------------------------------------------- controller: the filters
ParseInt(m) == m.num

\* path.relative(from, to): the common directories are dropped, and one
\* "../" leads out of every directory of `from` that is left
RECURSIVE relative(_, _)
relative(from, to) ==
  IF from # <<>> /\ to # <<>> /\ Head(from) = Head(to)
  THEN relative(Tail(from), Tail(to))
  ELSE [i \in 1..Len(from) |-> "../"] \o to

\* A glob is a sequence of segments as well: "**/" stands for any number of
\* directories (none of them "../"), "*" for a name up to the segments that
\* follow it in the glob, any other segment for itself.
\* <<"src/", "**/", "*", ".ts">> is src/**/*.ts.
AnyTs == <<"**/", "*", ".ts">>
AnyTsx == <<"**/", "*", ".tsx">>
SrcTs == <<"src/", "**/", "*", ".ts">>

RECURSIVE GlobMatch(_, _)
GlobMatch(glob, path) ==
  IF glob = <<>> THEN path = <<>>
  ELSE IF Head(glob) = "**/"
  THEN \/ GlobMatch(Tail(glob), path)
       \/ /\ path # <<>> /\ Head(path) \in Dirs \ {"../"}
          /\ GlobMatch(glob, Tail(path))
  ELSE IF Head(glob) = "*"
  THEN /\ path # <<>> /\ Head(path) \notin Dirs
       /\ GlobMatch(Tail(glob), Tail(path)) \/ GlobMatch(glob, Tail(path))
  ELSE path # <<>> /\ Head(path) = Head(glob)
         /\ GlobMatch(Tail(glob), Tail(path))

\* micromatch([file], globs).length # 0
Matches(file, globs) == \E g \in globs : GlobMatch(g, file)

\* a predicate that matches the globs against the absolute file name
reportFilesPredicateAbsolute(o, m) ==
  IF m.file # NoFile THEN Matches(m.file, o.reportFiles) ELSE TRUE

\* o holds the fields of the plugin that the filters read; o.context is
\* this.compiler.options.context
reportFilesPredicate(o, m) ==
  IF m.file # NoFile
  THEN Matches(relative(o.context, m.file), o.reportFiles)
  ELSE TRUE

\* diagnostics that pass the code filter unfiltered
FilteredDiagnosticsKeepsCodes(o, message) ==
  LET d0 == message.diagnostics
      KeepFile(m) == reportFilesPredicate(o, m)
  IN IF o.reportFiles # {} THEN SelectSeq2(d0, {m \in Range(d0) : KeepFile(m)}) ELSE d0

\* handleServiceMessage, lines 787-825: the report built from a message
FilteredDiagnostics(o, message) ==
  LET d0 == message.diagnostics
      KeepCode(m) == ParseInt(m) \notin o.ignoreDiagnostics
      KeepFile(m) == reportFilesPredicate(o, m)
      d1 == IF o.ignoreDiagnostics # {} THEN SelectSeq2(d0, {m \in Range(d0) : KeepCode(m)}) ELSE d0
  IN IF o.reportFiles # {} THEN SelectSeq2(d1, {m \in Range(d1) : KeepFile(m)}) ELSE d1

FilteredLints(o, message) ==
  LET l0 == message.lints
      KeepCode(m) == m.str \notin o.ignoreLints
      KeepFile(m) == reportFilesPredicate(o, m)
      l1 == IF o.ignoreLints # {} THEN SelectSeq2(l0, {m \in Range(l0) : KeepCode(m)}) ELSE l0
  IN IF o.reportFiles # {} THEN SelectSeq2(l1, {m \in Range(l1) : KeepFile(m)}) ELSE l1

\* afterCompileCallback, lines 902-926: what is pushed into the compilation
IsWarning(m) == m.severity = "warning"
PushedErrors(d, l) == SelectSeq2(d \o l, {m \in Range(d \o l) : ~IsWarning(m)})
PushedWarnings(o, d, l) ==
  IF o.ignoreLintWarnings THEN <<>>
  ELSE SelectSeq2(d \o l, {m \in Range(d \o l) : IsWarning(m)})

\* the options the plugin is constructed with
NoFilters ==
  [ignoreDiagnostics |-> {}, ignoreLints |-> {}, ignoreLintWarnings |-> FALSE,
   reportFiles |-> {}, context |-> <<"ctx/">>]
AllFilters ==
  [ignoreDiagnostics |-> {2322}, ignoreLints |-> {"no-var"},
   ignoreLintWarnings |-> TRUE, reportFiles |-> {AnyTs},
   context |-> <<"ctx/">>]

Options ==
  { [async |-> a, watch |-> w, filters |-> f] :
      a \in BOOLEAN, w \in BOOLEAN, f \in {NoFilters} }

\* ------------------------------------------------- controller: apply()
\* what apply() looks at: the tsconfig file, the tslint option (undefined,
\* true, or the path of a file), the methods of the logger, the incremental
\* API switch and the number of workers
Configs ==
  [tsconfigExists : BOOLEAN, tslint : {"undefined", "true", "path"},
   tslintExists : BOOLEAN, logger : SUBSET {"error", "warn", "info"},
   useTypescriptIncrementalApi : BOOLEAN, workersNumber : {1, PoolSize}]

ValidConfig ==
  [tsconfigExists |-> TRUE, tslint |-> "undefined", tslintExists |-> FALSE,
   logger |-> {"error", "warn", "info"},
   useTypescriptIncrementalApi |-> TRUE, workersNumber |-> 1]

\* pluginStart, pluginStop, pluginCompile, pluginEmit, pluginDone
AllHooks == {"run", "watchRun", "watchClose", "done", "compile", "afterCompile"}

tsconfigOk(c) == c.tsconfigExists

\* a tslint file that is never looked for
tslintOkUnchecked(c) == TRUE

\* line 342: !this.tslintPath || fileExistsSync(this.tslintPath)
tslintOk(c) == c.tslint # "path" \/ c.tslintExists

\* the Error apply() throws, "" when it returns
applyError(c) ==
  IF c.useTypescriptIncrementalApi /\ c.workersNumber # 1
  THEN "single worker"
  ELSE IF ~({"error", "warn", "info"} \subseteq c.logger)
  THEN "Invalid logger object"
  ELSE IF tsconfigOk(c) /\ tslintOk(c) THEN ""
  ELSE IF ~tsconfigOk(c) THEN "Cannot find tsconfig"
  ELSE "Cannot find tslint"

\* ------------------------------------------------------------------- state
VARIABLES
  config,             \* what apply() finds: files, logger, worker count
  hooks,              \* the compiler hooks the plugin has tapped
  applied,            \* apply(): "no", "ok" or "threw"
  pool,               \* the pool coordinator: job, workers' replies, result
  partition,          \* the watched files and what each checker owns
  wrapper,            \* a file name on its way through wrapFileName and
                      \* unwrapFileName
  options,            \* the plugin's options; options.watch: the host watches
  env,                \* environment of the forked service
  phase,              \* the host's build: idle, run, compiling, emitting, emitted
  isWatching, checkDone, compilationDone,
  cancellationToken,  \* the current token (0: undefined)
  elapsed,            \* job whose `started` the elapsed time was taken from
  report,             \* diagnostics, lints and the job whose run produced them
  afterCompileCallback, \* "noop" or "callback"
  service, serviceRpc,  \* the service handle and its RpcProvider (0: undefined)
  tokens,             \* every token created so far
  nextJob, nextService,
  procs,              \* the forked processes
  pendingTransactions, nextTransactionId, \* per RpcProvider
  reqChan, repChan,   \* IPC messages in flight, per process
  runs,               \* run() invocations suspended in the worker, per process
  compilation,        \* since the compile hook: errors and warnings pushed,
                      \* invocations of the callback, done reports raised
  events,             \* notifications and exceptions raised by the last step
  lastRun             \* what run() did, when the last step finished a run

ctrl == <<isWatching, checkDone, compilationDone, cancellationToken, elapsed,
          report, afterCompileCallback, service, serviceRpc>>
chan == <<pendingTransactions, nextTransactionId, reqChan, repChan>>
setup == <<config, hooks, applied>>
vars == <<wrapper, partition, pool, setup, options, env, phase, ctrl, tokens, nextJob, nextService, chan,
          procs, runs, compilation, events, lastRun>>

NoReport == [job |-> 0, diagnostics |-> <<>>, lints |-> <<>>]
NoProc == [state |-> "none", connected |-> FALSE, signal |-> "",
           exited |-> FALSE]
NoRun == [job |-> 0, iter |-> Skipped, ts |-> Skipped, lint |-> Skipped,
          requested |-> FALSE, out |-> [type |-> "none"]]
NewCompilation == [errors |-> <<>>, warnings |-> <<>>, calls |-> 0,
                   doneReports |-> 0]

\* the job dispatched by the latest compile event
LatestJob == nextJob - 1

\* a notification or exception: the hook, the job (or token) it is about, and
\* the latest job at the time it was raised
Note(hook, job, latest) == [hook |-> hook, job |-> job, latest |-> latest]

\* the fields as the constructor and the field initializers leave them, no
\* service forked and nothing in flight
Constructed ==
  /\ wrapper = NoWrapper
  /\ partition = NoPartition
  /\ pool = NoPool
  /\ phase = "idle"
  /\ isWatching = FALSE /\ checkDone = FALSE /\ compilationDone = FALSE
  /\ cancellationToken = 0
  /\ elapsed = 0
  /\ report = NoReport
  /\ afterCompileCallback = "noop"
  /\ service = 0 /\ serviceRpc = 0
  /\ nextJob = 1 /\ nextService = 1
  /\ procs = [s \in Services |-> NoProc]
  /\ pendingTransactions = [s \in Services |-> {}]
  /\ nextTransactionId = [s \in Services |-> 0]
  /\ reqChan = [s \in Services |-> <<>>]
  /\ repChan = [s \in Services |-> <<>>]
  /\ runs = [s \in Services |-> {}]
  /\ compilation = NewCompilation
  /\ events = {}
  /\ lastRun = NoRun

Init ==
  /\ config = ValidConfig
  /\ hooks = {} /\ applied = "no"
  /\ options \in Options
  /\ env \in Envs
  /\ tokens = [j \in Jobs |-> NoToken]
  /\ Constructed

\* ------------------------------------------------------ controller: helpers
\* a process that stops running loses its queue and its suspended runs
Stopped(p, signal) == [p EXCEPT !.state = "dead", !.signal = signal]

\* afterCompileCallback(): the compilation after the callback has run with
\* report r (createAfterCompileCallback, lines 880-929)
AfterCompileCalled(c, r) ==
  [errors |-> c.errors \o PushedErrors(r.diagnostics, r.lints),
   warnings |-> c.warnings
                  \o PushedWarnings(options.filters, r.diagnostics, r.lints),
   calls |-> c.calls + 1,
   doneReports |-> c.doneReports]

\* the host goes on when the callback it handed to the emit handler is called
CallbackPhase(ph) == IF ph \in {"compiling", "emitting"} THEN "emitted" ELSE ph

\* ------------------------------------------------------------ host events
\* apply(compiler), lines 330-394
Apply ==
  /\ applied = "no"
  /\ LET err == applyError(config)
     IN /\ applied' = IF err = "" THEN "ok" ELSE "threw"
        /\ hooks' = IF err = "" THEN AllHooks ELSE hooks
        /\ events' = IF err = "" THEN {} ELSE {Note(err, 0, 0)}
  /\ lastRun' = NoRun
  /\ UNCHANGED <<wrapper, partition, pool, config, options, env, phase, ctrl, tokens, nextJob,
                 nextService, chan, procs, runs, compilation>>

\* pluginStart: the run hook
HostRun ==
  /\ "run" \in hooks
  /\ phase = "idle" /\ ~options.watch
  /\ isWatching' = FALSE
  /\ phase' = "run"
  /\ events' = {} /\ lastRun' = NoRun
  /\ UNCHANGED <<wrapper, partition, pool, setup, options, env, checkDone, compilationDone, cancellationToken,
                 elapsed, report, afterCompileCallback, service, serviceRpc,
                 tokens, nextJob, nextService, chan, procs, runs,
                 compilation>>

\* pluginStart: the watchRun hook
HostWatchRun ==
  /\ "watchRun" \in hooks
  /\ phase = "idle" /\ options.watch
  /\ isWatching' = TRUE
  /\ phase' = "run"
  /\ events' = {} /\ lastRun' = NoRun
  /\ UNCHANGED <<wrapper, partition, pool, setup, options, env, checkDone, compilationDone, cancellationToken,
                 elapsed, report, afterCompileCallback, service, serviceRpc,
                 tokens, nextJob, nextService, chan, procs, runs,
                 compilation>>

\* pluginCompile, lines 456-499 (502-555 for webpack 2/3): what the compile
\* hook does to the tokens
CompileTokens(j) ==
  [(IF cancellationToken # 0
    THEN requestCancellation(tokens, cancellationToken)
    ELSE tokens) EXCEPT ![j] = NewToken]

\* what the listeners of a notification of the compile hook find when it is
\* raised: the current token, the token the notification is about, whether
\* the service has been forked and the run request sent in this step
Seen(current, token, spawned, sent) ==
  [current |-> current, token |-> token, spawned |-> spawned, sent |-> sent]
SeenNote(hook, job, latest, seen) ==
  [hook |-> hook, job |-> job, latest |-> latest, seen |-> seen]

\* a cancel notification raised before cancellation is requested
CompileNotesCancelFirst(j, old, spawn) ==
  LET freshTokens == [tokens EXCEPT ![j] = NewToken]
  IN (IF old # 0
      THEN {SeenNote("cancel", old, j, Seen(old, tokens[old], FALSE, FALSE))}
      ELSE {})
     \cup (IF spawn
          THEN {SeenNote("serviceStart", j, j,
                         Seen(j, freshTokens[j], TRUE, FALSE))}
          ELSE {})

\* pluginCompile, lines 459-472, and spawnService, lines 698-720: the
\* notifications of the compile hook, each with what has been done when it
\* is raised
CompileNotes(j, old, spawn) ==
  LET requestedTokens == IF old # 0 THEN requestCancellation(tokens, old)
                         ELSE tokens
      freshTokens == [requestedTokens EXCEPT ![j] = NewToken]
  IN (IF old # 0
      THEN {SeenNote("cancel", old, j,
                     Seen(old, requestedTokens[old], FALSE, FALSE))}
      ELSE {})
     \cup (IF spawn
          THEN {SeenNote("serviceStart", j, j,
                         Seen(j, freshTokens[j], TRUE, FALSE))}
          ELSE {})

\* a compile hook that forks a service every time
NeedsSpawnAlways == TRUE

\* a spawn decided on the service handle alone
NeedsSpawnWithoutService == service = 0

\* pluginCompile, line 470: if (!this.service || !this.service.connected)
NeedsSpawn == service = 0 \/ ~procs[service].connected

\* pluginCompile: the compile hook, with spawnService and the rpc call
Compile ==
  /\ "compile" \in hooks
  /\ phase = "run"
  /\ nextJob <= MaxJobs
  /\ LET j == nextJob
         old == cancellationToken
         spawn == NeedsSpawn
         s == IF spawn THEN nextService ELSE service
         tid == IF spawn THEN 0 ELSE nextTransactionId[s]
         request == [tid |-> tid, job |-> j]
         delivered == spawn \/ procs[s].state = "alive"
     IN /\ spawn => nextService <= MaxServices
        /\ compilationDone' = FALSE
        /\ tokens' = CompileTokens(j)
        /\ checkDone' = FALSE
        /\ cancellationToken' = j
        /\ service' = s
        /\ serviceRpc' = IF spawn THEN s ELSE serviceRpc
        /\ nextService' = IF spawn THEN nextService + 1 ELSE nextService
        /\ procs' = IF spawn
                    THEN [procs EXCEPT ![s] = [state |-> "alive",
                            connected |-> TRUE, signal |-> "", exited |-> FALSE]]
                    ELSE procs
        /\ nextTransactionId' = [nextTransactionId EXCEPT ![s] = tid + 1]
        /\ pendingTransactions' =
             [pendingTransactions EXCEPT ![s] = @ \cup {request}]
        /\ reqChan' = IF delivered
                      THEN [reqChan EXCEPT ![s] = Append(@, request)]
                      ELSE reqChan
        /\ events' = CompileNotes(j, old, spawn)
        /\ nextJob' = j + 1
        /\ compilation' = NewCompilation
        /\ phase' = "compiling"
  /\ lastRun' = NoRun
  /\ UNCHANGED <<wrapper, partition, pool, setup, options, env, isWatching, elapsed, report,
                 afterCompileCallback, repChan, runs>>

\* an emit handler that always defers to afterCompileCallback
EmitReturnsAtOnceNever == FALSE

\* an emit handler that never waits in an async build, watching or not
EmitReturnsAtOnceWhenAsync == options.async

\* pluginEmit, lines 561-564: if (this.isWatching && this.async) callback()
EmitReturnsAtOnce == isWatching /\ options.async

\* an emit handler that calls back without waiting for the check
CallbackDueAlways == TRUE

\* pluginEmit, line 571: if (this.checkDone) this.afterCompileCallback()
CallbackDue == checkDone

\* pluginEmit: the afterCompile hook
AfterCompile ==
  /\ "afterCompile" \in hooks
  /\ phase = "compiling"
  /\ lastRun' = NoRun
  /\ IF EmitReturnsAtOnce
     THEN /\ compilation' = [compilation EXCEPT !.calls = @ + 1]
          /\ phase' = "emitted"
          /\ events' = {}
          /\ UNCHANGED <<afterCompileCallback, compilationDone>>
     ELSE /\ afterCompileCallback' = "callback"
          /\ IF CallbackDue /\ elapsed = 0
             THEN /\ events' = {Note("Execution order error", 0, LatestJob)}
                  /\ UNCHANGED <<compilation, compilationDone, phase>>
             ELSE IF CallbackDue
             THEN /\ compilation' = AfterCompileCalled(compilation, report)
                  /\ events' = {Note("emit", report.job, LatestJob)}
                  /\ phase' = "emitted"
                  /\ compilationDone' = TRUE
             ELSE /\ phase' = "emitting"
                  /\ compilationDone' = TRUE
                  /\ events' = {}
                  /\ UNCHANGED compilation
  /\ UNCHANGED <<wrapper, partition, pool, setup, options, env, isWatching, checkDone, cancellationToken,
                 elapsed, report, service, serviceRpc, tokens, nextJob,
                 nextService, chan, procs, runs>>

\* killService, lines 754-771, as the next values it leaves behind
KilledTokens ==
  IF service # 0 /\ cancellationToken # 0
  THEN cleanupCancellation(tokens, cancellationToken) ELSE tokens
\* a killService that leaves the process running
KilledProcsKeepsRunning == procs

KilledProcs ==
  IF service # 0 /\ procs[service].state = "alive"
  THEN [procs EXCEPT ![service] = Stopped(@, "SIGTERM")] ELSE procs
KilledReqChan ==
  IF service # 0 THEN [reqChan EXCEPT ![service] = <<>>] ELSE reqChan
KilledRuns == IF service # 0 THEN [runs EXCEPT ![service] = {}] ELSE runs

killService ==
  /\ tokens' = KilledTokens
  /\ procs' = KilledProcs
  /\ reqChan' = KilledReqChan
  /\ runs' = KilledRuns
  /\ service' = 0
  /\ serviceRpc' = IF service # 0 THEN 0 ELSE serviceRpc

\* a done handler that reports without looking at checkDone
DoneReportDueAlways == TRUE

\* pluginDone, lines 600-613: if (this.checkDone) this.doneCallback(), else
\* the waiting notification
DoneReportDue == checkDone

\* the done hook: pluginStop's listener, then pluginDone's
Done ==
  /\ "done" \in hooks
  /\ phase = "emitted"
  /\ phase' = "idle"
  /\ lastRun' = NoRun
  /\ IF ~isWatching
     THEN /\ killService
          /\ events' = {}
          /\ UNCHANGED compilationDone
     ELSE /\ UNCHANGED <<tokens, procs, reqChan, runs, service, serviceRpc>>
          /\ IF ~options.async
             THEN /\ events' = {}
                  /\ UNCHANGED compilationDone
             ELSE IF DoneReportDue /\ elapsed = 0
             THEN /\ events' = {Note("Execution order error", 0, LatestJob)}
                  /\ UNCHANGED compilationDone
             ELSE /\ events' =
                       {IF DoneReportDue THEN Note("done", report.job, LatestJob)
                        ELSE Note("waiting", LatestJob, LatestJob)}
                  /\ compilationDone' = TRUE
  /\ compilation' = IF \E n \in events' : n.hook = "done"
                    THEN [compilation EXCEPT !.doneReports = @ + 1]
                    ELSE compilation
  /\ UNCHANGED <<wrapper, partition, pool, setup, options, env, isWatching, checkDone, cancellationToken,
                 elapsed, report, afterCompileCallback, nextJob, nextService,
                 pendingTransactions, nextTransactionId, repChan>>

\* pluginStop: the watchClose hook, noted as the host event of the step
WatchClose ==
  /\ "watchClose" \in hooks
  /\ isWatching
  /\ nextService <= MaxServices
  /\ killService
  /\ events' = {Note("watchClose", 0, LatestJob)} /\ lastRun' = NoRun
  /\ UNCHANGED <<wrapper, partition, pool, setup, options, env, phase, isWatching, checkDone, compilationDone,
                 cancellationToken, elapsed, report, afterCompileCallback,
                 nextJob, nextService, pendingTransactions, nextTransactionId,
                 repChan, compilation>>

\* ---------------------------------------------------------------- worker
\* process.on('message'): the RUN handler starts run(), which suspends at
\* `await checker.getDiagnostics(...)`
WorkerRunStart(s) ==
  /\ procs[s].state = "alive"
  /\ reqChan[s] # <<>>
  /\ runs' = [runs EXCEPT ![s] = @ \cup {Head(reqChan[s])}]
  /\ reqChan' = [reqChan EXCEPT ![s] = Tail(@)]
  /\ events' = {} /\ lastRun' = NoRun
  /\ UNCHANGED <<wrapper, partition, pool, setup, options, env, phase, ctrl, tokens, nextJob, nextService,
                 pendingTransactions, nextTransactionId, repChan, procs, compilation>>

\* a run that cleans up the token it was given
TokensAfterRunCleansUp(tk, j) == cleanupCancellation(tk, j)

\* run(cancellationToken): the token is handed to getDiagnostics, getLints
\* and getEsLints and asked isCancellationRequested(); nothing is called
\* that changes it
TokensAfterRun(tk, j) == tk

\* the rest of run() and the reply of the RUN handler
WorkerRunFinish(s) ==
  /\ procs[s].state = "alive"
  /\ \E r \in runs[s], iter \in IterOutcomes, ts \in TsOutcomes,
        lint \in LintOutcomes :
       LET requested == isCancellationRequested(tokens, r.job)
           out == run(env, iter, ts, lint, requested)
       IN /\ (ts = Canceled \/ lint = Canceled) => requested
          /\ (ts = Skipped) <=> ~out.tsRan
          /\ (lint = Skipped) <=> ~out.lintRan
          /\ lint.st = "ok" => lint.msgs \in PassResults(out.lintPass)
          /\ runs' = [runs EXCEPT ![s] = @ \ {r}]
          /\ tokens' = TokensAfterRun(tokens, r.job)
          /\ lastRun' = [job |-> r.job, iter |-> iter, ts |-> ts,
                         lint |-> lint, requested |-> requested,
                         out |-> out]
          /\ repChan' = [repChan EXCEPT ![s] =
               Append(@, [tid |-> r.tid, type |-> out.type,
                          payload |-> out.payload, job |-> r.job])]
  /\ events' = {}
  /\ UNCHANGED <<wrapper, partition, pool, setup, options, env, phase, ctrl, nextJob, nextService,
                 pendingTransactions, nextTransactionId, reqChan, procs, compilation>>

\* the service process is killed from outside or aborts out of memory; the
\* model lets that happen while a replacement can still be spawned
WorkerDie(s) ==
  /\ procs[s].state = "alive"
  /\ nextService <= MaxServices
  /\ \E signal \in {"SIGABRT", "SIGKILL"} :
       procs' = [procs EXCEPT ![s] = Stopped(@, signal)]
  /\ reqChan' = [reqChan EXCEPT ![s] = <<>>]
  /\ runs' = [runs EXCEPT ![s] = {}]
  /\ events' = {} /\ lastRun' = NoRun
  /\ UNCHANGED <<wrapper, partition, pool, setup, options, env, phase, ctrl, tokens, nextJob, nextService,
                 pendingTransactions, nextTransactionId, repChan, compilation>>

\* ------------------------------------------------- controller: the service
\* handleServiceExit, lines 849-874
handleServiceExit(signal) ==
  IF signal # "SIGABRT" THEN {}
  ELSE {Note("serviceOutOfMemory", LatestJob, LatestJob)}

\* the 'exit' listener of spawnService, lines 749-751
ServiceExit(s) ==
  /\ procs[s].state = "dead" /\ ~procs[s].exited
  /\ procs' = [procs EXCEPT ![s].exited = TRUE, ![s].connected = FALSE,
                            ![s].signal = ""]
  /\ events' = handleServiceExit(procs[s].signal)
  /\ lastRun' = NoRun
  /\ UNCHANGED <<wrapper, partition, pool, setup, options, env, phase, ctrl, tokens, nextJob, nextService,
                 chan, runs, compilation>>

\* handleServiceMessage, lines 779-783: what it does to the tokens
MessageTokens ==
  IF cancellationToken # 0
  THEN cleanupCancellation(tokens, cancellationToken)
  ELSE tokens

\* a report that is empty when the token of the run has been cancelled
ReportOfDropsCancelled(message, job) ==
  [job |-> job,
   diagnostics |-> IF tokens[job].requested THEN <<>>
                   ELSE FilteredDiagnostics(options.filters, message),
   lints |-> IF tokens[job].requested THEN <<>>
             ELSE FilteredLints(options.filters, message)]

\* handleServiceMessage, lines 787-825: this.diagnostics and this.lints
ReportOf(message, job) ==
  [job |-> job,
   diagnostics |-> FilteredDiagnostics(options.filters, message),
   lints |-> FilteredLints(options.filters, message)]

\* handleServiceMessage(message), lines 773-847; job: the run that produced
\* the message
handleServiceMessage(message, job) ==
  LET r == ReportOf(message, job)
      receive == Note("receive", job, LatestJob)
  IN /\ tokens' = MessageTokens
     /\ cancellationToken' = 0
     /\ checkDone' = TRUE
     /\ elapsed' = LatestJob
     /\ report' = r
     /\ IF ~compilationDone
        THEN /\ events' = {receive}
             /\ UNCHANGED <<compilation, phase>>
        ELSE IF isWatching /\ options.async
        THEN /\ events' = {receive, Note("done", job, LatestJob)}
             /\ compilation' = [compilation EXCEPT !.doneReports = @ + 1]
             /\ UNCHANGED phase
        ELSE IF afterCompileCallback = "callback"
        THEN /\ events' = {receive, Note("emit", job, LatestJob)}
             /\ compilation' = AfterCompileCalled(compilation, r)
             /\ phase' = CallbackPhase(phase)
        ELSE /\ events' = {receive}
             /\ UNCHANGED <<compilation, phase>>

\* a continuation without the `if (result)` test
ContinuationHandlesAll(m) == handleServiceMessage(m.payload, m.job)

\* the continuation of the rpc call, lines 481-485
Continuation(m) ==
  IF m.type = "resolve" /\ m.payload.kind = "result"
  THEN handleServiceMessage(m.payload, m.job)
  ELSE /\ events' = {}
       /\ UNCHANGED <<phase, tokens, cancellationToken, checkDone, elapsed,
                      report, compilation>>

\* the 'message' listener of spawnService: this.serviceRpc.dispatch(message)
\* and the RpcProvider's lookup of the pending transaction
ServiceMessage(s) ==
  /\ repChan[s] # <<>>
  /\ repChan' = [repChan EXCEPT ![s] = Tail(@)]
  /\ lastRun' = NoRun
  /\ LET m == Head(repChan[s])
         p == serviceRpc
         tx == IF p = 0 THEN {}
               ELSE {t \in pendingTransactions[p] : t.tid = m.tid}
     IN IF p = 0
        THEN /\ events' = {Note("TypeError", m.job, LatestJob)}
             /\ UNCHANGED <<phase, tokens, cancellationToken, checkDone,
                            elapsed, report, pendingTransactions,
                            compilation>>
        ELSE IF tx = {}
        THEN /\ events' = {Note("no pending transaction", m.job, LatestJob)}
             /\ UNCHANGED <<phase, tokens, cancellationToken, checkDone,
                            elapsed, report, pendingTransactions,
                            compilation>>
        ELSE \E t \in tx :
             /\ pendingTransactions' =
                  [pendingTransactions EXCEPT ![p] = @ \ {t}]
             /\ Continuation(m)
  /\ UNCHANGED <<wrapper, partition, pool, setup, options, env, isWatching, compilationDone,
                 afterCompileCallback, service, serviceRpc, nextJob,
                 nextService, nextTransactionId, reqChan, procs, runs>>

\* ------------------------------------------------------------ specification
Next ==
  \/ Apply
  \/ HostRun
  \/ HostWatchRun
  \/ Compile
  \/ AfterCompile
  \/ Done
  \/ WatchClose
  \/ \E s \in Services : WorkerRunStart(s)
  \/ \E s \in Services : WorkerRunFinish(s)
  \/ \E s \in Services : WorkerDie(s)
  \/ \E s \in Services : ServiceExit(s)
  \/ \E s \in Services : ServiceMessage(s)

Spec == Init /\ [][Next]_vars

\* =================================================================== claims
Reports == {"receive", "emit", "done"}

\* the rpc call of job j has not settled
Pending(j) == \E s \in Services : \E t \in pendingTransactions[s] : t.job = j

\* C1: every diagnostics report raised (receive, emit, done) carries the
\* result of the most recently dispatched job.
C1_LastTokenWins ==
  \A n \in events : n.hook \in Reports => n.job = n.latest

\* C2: a response cleans up and clears the current token, and replaces the
\* report, only when it is the response of the current token's own job.
C2_StaleResponseIgnored ==
  [][\A j \in Jobs :
       (/\ cancellationToken = j
        /\ cancellationToken' = 0
        /\ tokens'[j].cleanups > tokens[j].cleanups)
       => report'.job = j]_vars

\* C3: a compile event that finds the latest job still waiting for its
\* response requests cancellation of that job's token and, in the same step,
\* creates a fresh token and dispatches the new job.
C3_SupersedeCancels ==
  [][(nextJob' = nextJob + 1 /\ LatestJob >= 1 /\ Pending(LatestJob))
       => /\ tokens'[LatestJob].requested
          /\ cancellationToken' = nextJob
          /\ tokens'[nextJob] = NewToken
          /\ \E t \in pendingTransactions'[service'] : t.job = nextJob]_vars

\* C4: no token is cleaned up twice, and every token that is no longer the
\* controller's current token has been cleaned up exactly once.
C4_CleanupExactlyOnce ==
  \A j \in Jobs :
    /\ tokens[j].cleanups <= 1
    /\ (tokens[j].created /\ cancellationToken # j) => tokens[j].cleanups = 1

\* a job generation is active: dispatched, its call not completed, and its
\* token not both cancellation-requested and cleaned up
Active(j) ==
  /\ tokens[j].created
  /\ Pending(j)
  /\ ~(tokens[j].requested /\ tokens[j].cleanedUp)

\* C5: at most one job generation is active at any time.
C5_OneActiveJob == Cardinality({j \in Jobs : Active(j)}) <= 1

\* what happened in the run that the last step finished
RunFinished == lastRun.job # 0
FaultRaised ==
  lastRun.iter = Fault \/ lastRun.ts = Fault \/ lastRun.lint = Fault
CancelThrown == lastRun.ts = Canceled \/ lastRun.lint = Canceled
InternalErrors(d) == Cardinality({i \in DOMAIN d : d[i] = InternalError})

\* C6: a run that got OperationCanceledException, or whose token is
\* cancellation-requested when it ends, never replies with a result; when it
\* reaches its final check (or got the exception) it replies undefined, also
\* when a fault was caught in that run.
C6_CancelledRepliesUndefined ==
  RunFinished =>
    /\ (CancelThrown \/ lastRun.requested)
         => lastRun.out.payload.kind # "result"
    /\ (CancelThrown \/ (lastRun.requested /\ lastRun.out.polled))
         => lastRun.out.type = "resolve" /\ lastRun.out.payload = Undefined

C6_Witness ==
  /\ RunFinished /\ env.module = "service"
  /\ FaultRaised /\ lastRun.requested
  /\ lastRun.out.payload = Undefined

\* C7: requesting cancellation of a token leaves a result its run has already
\* sent unaltered, and that result, once delivered, is reported with exactly
\* the diagnostics and lints the run produced.
C7_ResultSurvivesCancellation ==
  [][\A s \in Services :
       /\ \A i \in DOMAIN repChan[s] :
            (/\ tokens'[repChan[s][i].job].requested
             /\ ~tokens[repChan[s][i].job].requested)
            => i \in DOMAIN repChan'[s] /\ repChan'[s][i] = repChan[s][i]
       /\ (/\ repChan[s] # <<>>
           /\ repChan'[s] = Tail(repChan[s])
           /\ tokens[Head(repChan[s]).job].requested
           /\ report' # report)
          => /\ report'.diagnostics =
                  FilteredDiagnostics(options.filters, Head(repChan[s]).payload)
             /\ report'.lints =
                  FilteredLints(options.filters, Head(repChan[s]).payload)]_vars

C7_Witness ==
  /\ report.job # 0
  /\ tokens[report.job].requested
  /\ report.diagnostics # <<>>

\* C8: a run in which the type-checker or the lint engine threw an unexpected
\* fault (and that did not observe cancellation) replies with a normal
\* result holding exactly one internal-error diagnostic, not with an RPC error.
C8_FaultBecomesDiagnostic ==
  (RunFinished /\ FaultRaised /\ ~lastRun.requested)
    => /\ lastRun.out.type = "resolve"
       /\ lastRun.out.payload.kind = "result"
       /\ InternalErrors(lastRun.out.payload.diagnostics) = 1

\* C9: in service.ts a fault in nextIteration or in the type-check pass does
\* not prevent the configured lint pass: the remaining passes still run.
C9_FaultKeepsPassesRunning ==
  (/\ RunFinished /\ env.module = "service"
   /\ (lastRun.iter = Fault \/ lastRun.ts = Fault)
   /\ (env.ESLINT \/ env.TSLINT))
    => lastRun.out.lintRan

\* What service.ts does on a fault: the remaining passes of the run are not
\* made and the lints are lost; the diagnostics of a completed type-check
\* pass are returned with one internal-error diagnostic appended, unless
\* cancellation is observed.
FaultEndsRunKeepsDiagnostics ==
  (RunFinished /\ env.module = "service" /\ FaultRaised)
    => /\ lastRun.iter = Fault => lastRun.ts = Skipped
       /\ lastRun.ts # Ok(lastRun.ts.msgs) => lastRun.lint = Skipped
       /\ lastRun.out.type = "resolve"
       /\ lastRun.requested => lastRun.out.payload = Undefined
       /\ ~lastRun.requested =>
            lastRun.out.payload =
              Result(Append(lastRun.ts.msgs, InternalError), <<>>)

\* C10: the step that handles the exit of a worker killed from outside, with
\* no reply of it left in flight, settles every rpc call pending on it.
C10_ExitSettlesPending ==
  [][\A s \in Services :
       (/\ procs'[s].exited /\ ~procs[s].exited
        /\ procs[s].signal # "SIGTERM"
        /\ repChan[s] = <<>>)
       => pendingTransactions'[s] = {}]_vars

\* C11: the exit of a worker killed from outside (by whatever signal) while a
\* call is pending on it raises serviceOutOfMemory and no receive, emit or
\* done report.
C11_KilledWorkerIsPoolFatal ==
  [][\A s \in Services :
       (/\ procs'[s].exited /\ ~procs[s].exited
        /\ procs[s].signal \in {"SIGABRT", "SIGKILL"}
        /\ pendingTransactions[s] # {})
       => /\ \E n \in events' : n.hook = "serviceOutOfMemory"
          /\ \A n \in events' : n.hook \notin Reports]_vars

\* C12 as claimed: a compile event never dispatches its job to a process that
\* is dead.
C12_NeverDispatchToDead ==
  [][nextJob' = nextJob + 1 => procs'[service'].state = "alive"]_vars

\* C12: a compile event that finds the service torn down, or finds that the
\* exit or disconnect of its process has been observed, forks a fresh process
\* and dispatches the new job to it through a fresh RpcProvider.
C12_RespawnAfterObservedExit ==
  [][(/\ nextJob' = nextJob + 1
      /\ (service = 0 \/ procs[service].exited \/ ~procs[service].connected))
     => /\ service' # service
        /\ procs[service'].state = "none"
        /\ procs'[service'].state = "alive" /\ procs'[service'].connected
        /\ serviceRpc' = service'
        /\ reqChan'[service'] = <<[tid |-> 0, job |-> nextJob]>>
        /\ pendingTransactions'[service'] = {[tid |-> 0, job |-> nextJob]}]_vars

C12_Witness ==
  /\ service = 2 /\ serviceRpc = 2
  /\ procs[1].state = "dead" /\ procs[1].exited
  /\ procs[2].state = "alive"
  /\ reqChan[2] # <<>>

\* C13: in synchronous delivery (not watching, or async = false) the callback
\* of the afterCompile event is invoked only when the result of the job of the
\* latest compile event has been received, and what it pushes into the
\* compilation are the errors and warnings of that job's report.
C13_SyncCallbackAfterResult ==
  [][(~(isWatching /\ options.async) /\ compilation'.calls > compilation.calls)
     => LET all == report'.diagnostics \o report'.lints
            IsError(m) == m.severity # "warning"
            IsWarn(m) == m.severity = "warning"
        IN /\ checkDone'
           /\ report'.job = LatestJob
           /\ compilation'.errors = compilation.errors \o SelectSeq(all, IsError)
           /\ compilation'.warnings =
                compilation.warnings \o SelectSeq(all, IsWarn)]_vars

C13_Witness ==
  /\ ~(isWatching /\ options.async)
  /\ LatestJob = 2 /\ report.job = 2
  /\ phase = "emitted" /\ compilation.calls = 1
  /\ compilation.errors # <<>> /\ compilation.warnings # <<>>

\* C14: while watching with async = true the afterCompile handler calls back
\* at once, whether or not a result is there; nothing is ever pushed into the
\* compilation and no emit report is raised; a result that arrives after the
\* done event is delivered by the done report.
C14_AsyncEmitReturnsAtOnce ==
  [][(isWatching /\ options.async)
     => /\ (phase = "compiling" /\ phase' # "compiling")
             => /\ phase' = "emitted"
                /\ compilation'.calls = compilation.calls + 1
        /\ compilation'.errors = <<>> /\ compilation'.warnings = <<>>
        /\ \A n \in events' : n.hook # "emit"
        /\ (report' # report /\ compilationDone)
             => \E n \in events' : n.hook = "done" /\ n.job = report'.job]_vars

C14_Witness ==
  /\ isWatching /\ options.async
  /\ phase = "emitted" /\ compilation.calls = 1
  /\ ~checkDone /\ cancellationToken = LatestJob /\ Pending(LatestJob)

\* C15: while watching with async = true, a done event that finds no result
\* yet (checkDone false) raises the waiting notification and no done report;
\* the done report is raised by the step in which the result then arrives.
C15_WaitingThenDone ==
  [][(isWatching /\ options.async)
     => /\ (phase = "emitted" /\ phase' = "idle" /\ ~checkDone)
             => /\ \E n \in events' : n.hook = "waiting"
                /\ \A n \in events' : n.hook # "done"
                /\ compilationDone'
        /\ (compilationDone /\ ~checkDone /\ checkDone')
             => \E n \in events' : n.hook = "done" /\ n.job = report'.job]_vars

C15_Witness ==
  /\ isWatching /\ options.async /\ compilationDone
  /\ phase = "idle" /\ checkDone /\ report.job = LatestJob
  /\ \E n \in events : n.hook = "done" /\ n.job = LatestJob
  /\ \E n \in events : n.hook = "receive" /\ n.job = LatestJob

\* ------------------------------------------------- the service stays alive
\* The plugin with a worker that is never killed from outside and a watcher
\* that is never closed; the host goes on with a build it has started, the
\* worker handles every request it receives and every reply is delivered.
LiveNext ==
  \/ Apply
  \/ HostRun
  \/ HostWatchRun
  \/ Compile
  \/ AfterCompile
  \/ Done
  \/ \E s \in Services : WorkerRunStart(s)
  \/ \E s \in Services : WorkerRunFinish(s)
  \/ \E s \in Services : ServiceExit(s)
  \/ \E s \in Services : ServiceMessage(s)

Fairness ==
  /\ WF_vars(AfterCompile)
  /\ WF_vars(Done)
  /\ \A s \in Services :
       /\ WF_vars(WorkerRunStart(s))
       /\ WF_vars(WorkerRunFinish(s))
       /\ WF_vars(ServiceMessage(s))

LiveSpec == Init /\ [][LiveNext]_vars /\ Fairness

\* the result of job j is reported by the emit or the done report
Reported(j) == \E n \in events : n.hook \in {"emit", "done"} /\ n.job = j

\* C16: with a worker that stays alive and replies to every request, the job
\* of the latest compile event, while its call is pending, is either
\* superseded by a later compile event or its result is eventually reported
\* (emit report in synchronous delivery, done report in asynchronous
\* delivery).
C16_LastJobReported ==
  \A j \in Jobs :
    (nextJob = j + 1 /\ Pending(j)) ~> (nextJob > j + 1 \/ Reported(j))

\* C17: the step in which a pending call resolves with undefined (the
\* cancelled variant) changes nothing in the controller: checkDone, the
\* report, elapsed, the current token and the tokens stay as they are, the
\* compilation is not touched and no notification or exception is raised.
C17_CancelledReplyChangesNothing ==
  [][\A s \in Services :
       (/\ repChan[s] # <<>>
        /\ repChan'[s] = Tail(repChan[s])
        /\ Head(repChan[s]).type = "resolve"
        /\ Head(repChan[s]).payload = Undefined
        /\ pendingTransactions' # pendingTransactions)
       => /\ UNCHANGED <<checkDone, report, elapsed, cancellationToken,
                         tokens, compilation, compilationDone, phase>>
          /\ events' = {}]_vars

\* job 1 was cancelled by the second compile event and its call has resolved
\* without handleServiceMessage: token 2 is still the current one
C17_Witness ==
  /\ env.module = "service"
  /\ nextJob = 3 /\ nextService = 2
  /\ tokens[1].requested /\ tokens[1].cleanups = 0
  /\ ~Pending(1) /\ Pending(2)
  /\ cancellationToken = 2 /\ ~checkDone /\ report = NoReport

\* C18: a run that ends in a live worker sends exactly one reply for its
\* request, a result or undefined (never a rejection), and leaves the worker
\* alive with its other runs and its queued requests untouched.
C18_OneReplyThenIdle ==
  [][\A s \in Services :
       (procs'[s].state = "alive" /\ runs'[s] # runs[s] /\ runs'[s] \subseteq runs[s])
       => \E r \in runs[s] :
            /\ runs'[s] = runs[s] \ {r}
            /\ \A i \in DOMAIN repChan[s] : repChan[s][i].job # r.job
            /\ Len(repChan'[s]) = Len(repChan[s]) + 1
            /\ SubSeq(repChan'[s], 1, Len(repChan[s])) = repChan[s]
            /\ LET reply == repChan'[s][Len(repChan'[s])]
               IN /\ reply.tid = r.tid /\ reply.job = r.job
                  /\ reply.type = "resolve"
                  /\ reply.payload.kind \in {"result", "undefined"}
            /\ procs'[s] = procs[s]
            /\ reqChan'[s] = reqChan[s]]_vars

\* ------------------------------------------------ one build, any messages
\* One build whose job has been run by the service of src/src/service.ts and
\* whose reply is in flight.  The checker's results are any lists of at most
\* MaxLen messages, the lint pass may have thrown, and the plugin has any
\* combination of filters.
TsWarning ==
  [type |-> "diagnostic", num |-> 6133, str |-> "", severity |-> "warning",
   file |-> <<"ctx/", "c", ".tsx">>]
LintError ==
  [type |-> "lint", num |-> NoCode, str |-> "semicolon", severity |-> "error",
   file |-> <<"other/", "src/", "a", ".ts">>]

DiagnosticPool == {TsDiagnostic, TsWarning}
LintPool == {LintWarning, LintError}

SeqsUpTo(S, n) == UNION {[1..k -> S] : k \in 0..n}

FilterChoices ==
  [ignoreDiagnostics : {{}, {2322}}, ignoreLints : {{}, {"no-var"}},
   ignoreLintWarnings : BOOLEAN,
   reportFiles : {{}, {AnyTs}, {SrcTs, AnyTsx}},
   context : {<<"ctx/">>, <<"ctx/", "src/">>}]

FilterOptions ==
  { [async |-> a, watch |-> w, filters |-> f] :
      a \in BOOLEAN, w \in BOOLEAN, f \in FilterChoices }

FilterInit ==
  /\ wrapper = NoWrapper
  /\ partition = NoPartition
  /\ pool = NoPool
  /\ config = ValidConfig
  /\ hooks = AllHooks /\ applied = "ok"
  /\ options \in FilterOptions
  /\ env = Env("service", TRUE, FALSE, FALSE)
  /\ phase = "compiling"
  /\ isWatching = options.watch
  /\ checkDone = FALSE /\ compilationDone = FALSE
  /\ cancellationToken = 1
  /\ elapsed = 0
  /\ report = NoReport
  /\ afterCompileCallback = "noop"
  /\ service = 1 /\ serviceRpc = 1
  /\ tokens = [j \in Jobs |-> IF j = 1 THEN NewToken ELSE NoToken]
  /\ nextJob = 2 /\ nextService = 2
  /\ procs = [s \in Services |->
                IF s = 1 THEN [state |-> "alive", connected |-> TRUE,
                               signal |-> "", exited |-> FALSE]
                ELSE NoProc]
  /\ pendingTransactions =
       [s \in Services |-> IF s = 1 THEN {[tid |-> 0, job |-> 1]} ELSE {}]
  /\ nextTransactionId = [s \in Services |-> IF s = 1 THEN 1 ELSE 0]
  /\ reqChan = [s \in Services |-> <<>>]
  /\ runs = [s \in Services |-> {}]
  /\ compilation = NewCompilation
  /\ events = {}
  /\ \E d \in SeqsUpTo(DiagnosticPool, MaxLen),
        lint \in {Ok(l) : l \in SeqsUpTo(LintPool, MaxLen)} \cup {Fault} :
       LET out == run(env, Ok(<<>>), Ok(d), lint, FALSE)
       IN /\ lastRun = [job |-> 1, iter |-> Ok(<<>>), ts |-> Ok(d),
                        lint |-> lint, requested |-> FALSE, out |-> out]
          /\ repChan = [s \in Services |->
                          IF s = 1
                          THEN <<[tid |-> 0, type |-> out.type,
                                  payload |-> out.payload, job |-> 1]>>
                          ELSE <<>>]

FilterNext ==
  \/ AfterCompile
  \/ Done
  \/ \E s \in Services : ServiceMessage(s)

FilterSpec == FilterInit /\ [][FilterNext]_vars

\* C19: with ignoreLintWarnings set, nothing of warning severity is pushed
\* into the compilation, and no receive, emit or done report carries a
\* diagnostic or a lint of warning severity.
C19_WarningsSuppressed ==
  options.filters.ignoreLintWarnings
    => /\ compilation.warnings = <<>>
       /\ (\E n \in events : n.hook \in Reports)
            => \A m \in Range(report.diagnostics) \cup Range(report.lints) :
                 m.severity # "warning"

\* C20: the report built from a result keeps, in order, exactly the
\* diagnostics whose numeric code is not in ignoreDiagnostics and exactly the
\* lints whose rule is not in ignoreLints (of the records reportFiles lets
\* through); ignoreDiagnostics removes no lint and ignoreLints no diagnostic.
C20_IgnoreFiltersExact ==
  [][\A s \in Services :
       (/\ repChan[s] # <<>> /\ repChan'[s] = Tail(repChan[s])
        /\ Head(repChan[s]).payload.kind = "result"
        /\ ~checkDone /\ checkDone')
       => LET msg == Head(repChan[s]).payload
              f == options.filters
              InFiles(m) ==
                f.reportFiles = {} \/ reportFilesPredicate(f, m)
              KeptD(m) == m.num \notin f.ignoreDiagnostics /\ InFiles(m)
              KeptL(m) == m.str \notin f.ignoreLints /\ InFiles(m)
          IN /\ report'.diagnostics = SelectSeq(msg.diagnostics, KeptD)
             /\ report'.lints = SelectSeq(msg.lints, KeptL)]_vars

C20_Witness ==
  /\ options.filters.ignoreDiagnostics = {2322}
  /\ options.filters.ignoreLints = {"no-var"}
  /\ checkDone /\ report.job = 1
  /\ report.diagnostics = <<TsWarning, InternalError>>
  /\ report.lints = <<>>

\* --------------------------------------------------- apply(), any config
\* a configuration with a missing tsconfig file, a missing tslint file, a
\* logger without error, warn or info, or the incremental API with a worker
\* count other than 1
ConfigInvalid(c) ==
  \/ ~c.tsconfigExists
  \/ c.tslint = "path" /\ ~c.tslintExists
  \/ {"error", "warn", "info"} \ c.logger # {}
  \/ c.useTypescriptIncrementalApi /\ c.workersNumber # 1

\* The plugin before apply() is called, constructed with any such
\* configuration or with the one of ValidConfig, in synchronous delivery;
\* the service is that of src/src/service.ts.
ApplyInit ==
  /\ config \in {c \in Configs : c = ValidConfig \/ ConfigInvalid(c)}
  /\ hooks = {} /\ applied = "no"
  /\ options \in {o \in Options : ~o.async}
  /\ env = Env("service", FALSE, FALSE, FALSE)
  /\ tokens = [j \in Jobs |-> NoToken]
  /\ Constructed

ApplySpec == ApplyInit /\ [][Next]_vars

\* C21: with a missing tsconfig file, a missing tslint file, a logger that
\* lacks error, warn or info, or the incremental API with a worker count
\* other than 1, apply() throws, and no hook is ever tapped, no process
\* forked and no job dispatched.
C21_InvalidConfigFailsFirst ==
  (applied # "no" /\ ConfigInvalid(config))
    => /\ applied = "threw"
       /\ hooks = {}
       /\ phase = "idle"
       /\ nextJob = 1 /\ nextService = 1 /\ service = 0
       /\ \A s \in Services :
            /\ procs[s] = NoProc
            /\ reqChan[s] = <<>> /\ pendingTransactions[s] = {}

C21_Witness ==
  /\ applied = "threw"
  /\ config.tsconfigExists /\ config.logger = {"error", "warn", "info"}
  /\ ~config.useTypescriptIncrementalApi
  /\ config.tslint = "path" /\ ~config.tslintExists
  /\ events = {Note("Cannot find tslint", 0, 0)}

\* ------------------------------------------------- the token operations
\* Tokens in any combination of created and not created, with the two
\* operations the controller has on a token applied in any order.
RequestCancellation(j) ==
  /\ tokens[j].created /\ ~tokens[j].requested
  /\ tokens' = requestCancellation(tokens, j)
  /\ events' = {} /\ lastRun' = NoRun
  /\ UNCHANGED <<wrapper, partition, pool, setup, options, env, phase, ctrl, nextJob, nextService,
                 chan, procs, runs, compilation>>

CleanupCancellation(j) ==
  /\ tokens[j].created /\ tokens[j].cleanups < MaxCleanups
  /\ tokens' = cleanupCancellation(tokens, j)
  /\ events' = {} /\ lastRun' = NoRun
  /\ UNCHANGED <<wrapper, partition, pool, setup, options, env, phase, ctrl, nextJob, nextService,
                 chan, procs, runs, compilation>>

TokenInit ==
  /\ config = ValidConfig
  /\ hooks = {} /\ applied = "no"
  /\ options \in Options
  /\ env \in Envs
  /\ tokens \in [Jobs -> {NoToken, NewToken}]
  /\ Constructed

TokenNext ==
  \/ \E j \in Jobs : RequestCancellation(j)
  \/ \E j \in Jobs : CleanupCancellation(j)

TokenSpec == TokenInit /\ [][TokenNext]_vars

\* what can be observed of a token
Observable(t) == [requested |-> t.requested, cleanedUp |-> t.cleanedUp]

\* C22: cleanupCancellation() on a token that has been cleaned up before
\* changes nothing that can be observed of that token, nor any other token:
\* two invocations leave what one leaves.
C22_CleanupIdempotent ==
  [][\A j \in Jobs :
       (tokens[j].cleanedUp /\ tokens'[j].cleanups = tokens[j].cleanups + 1)
       => \A k \in Jobs : Observable(tokens'[k]) = Observable(tokens[k])]_vars

C22_Witness ==
  \E j \in Jobs :
    /\ tokens[j].cleanups = 2 /\ tokens[j].cleanedUp /\ tokens[j].requested

\* C23: a step of a worker (a RUN request taken from the queue, a run
\* finished and replied to) leaves every token as it is, and the reply is
\* decided by the requested flag as the worker reads it; the tokens change
\* only in steps of the controller: the compile hook, killService, and the
\* delivery of a reply.
C23_WorkerOnlyReadsToken ==
  [][/\ (\E s \in Services : procs'[s].state = "alive" /\ runs'[s] # runs[s])
          => /\ tokens' = tokens
             /\ lastRun' # NoRun
                  => lastRun'.requested = tokens[lastRun'.job].requested
     /\ tokens' # tokens
          => \/ nextJob' = nextJob + 1
             \/ service # 0 /\ service' = 0
             \/ \E s \in Services :
                  repChan[s] # <<>> /\ repChan'[s] = Tail(repChan[s])]_vars

C23_Witness ==
  /\ RunFinished /\ lastRun.requested
  /\ lastRun.out.payload = Undefined
  /\ tokens[lastRun.job].requested /\ ~tokens[lastRun.job].cleanedUp

\* the call that the delivery of the first reply of process s settles
Settled(s) == pendingTransactions[serviceRpc] \ pendingTransactions'[serviceRpc]

\* C24: a reply that settles a call settles the call it answers: the
\* continuation that receives a run's payload is that of the job the run
\* was made for.
C24_ReplyReachesItsCall ==
  [][\A s \in Services :
       (/\ repChan[s] # <<>> /\ repChan'[s] = Tail(repChan[s])
        /\ pendingTransactions' # pendingTransactions)
       => \A t \in Settled(s) : t.job = Head(repChan[s]).job]_vars

\* What the RpcProvider does guarantee: a reply of the process the current
\* provider was made for settles the call it answers, in whatever order the
\* replies of that process arrive.
SameProviderRepliesMatch ==
  [][\A s \in Services :
       (/\ repChan[s] # <<>> /\ repChan'[s] = Tail(repChan[s])
        /\ s = serviceRpc
        /\ pendingTransactions' # pendingTransactions)
       => \A t \in Settled(s) : t.job = Head(repChan[s]).job]_vars

\* ------------------------------------------------------ a pool of workers
\* run(job, token): the job is fanned out to every worker
PoolRun ==
  /\ pool.job < MaxJobs
  /\ pool.job = 0 \/ pool.combined # NoReply
  /\ pool' = [NoPool EXCEPT !.job = pool.job + 1]
  /\ events' = {} /\ lastRun' = NoRun
  /\ UNCHANGED <<wrapper, partition, setup, options, env, phase, ctrl, tokens,
                 nextJob, nextService, chan, procs, runs, compilation>>

\* the reply of worker w arrives; the last reply to arrive completes the run
PoolWorkerReply(w) ==
  /\ pool.job > 0
  /\ pool.replies[w] = NoReply
  /\ \E reply \in WorkerReplies :
       LET replies == [pool.replies EXCEPT ![w] = reply]
       IN pool' = [pool EXCEPT
                     !.replies = replies,
                     !.combined = IF \A v \in Workers : replies[v] # NoReply
                                  THEN Combine(replies) ELSE NoReply]
  /\ events' = {} /\ lastRun' = NoRun
  /\ UNCHANGED <<wrapper, partition, setup, options, env, phase, ctrl, tokens,
                 nextJob, nextService, chan, procs, runs, compilation>>

PoolInit ==
  /\ config = [ValidConfig EXCEPT !.useTypescriptIncrementalApi = FALSE,
                                  !.workersNumber = PoolSize]
  /\ hooks = AllHooks /\ applied = "ok"
  /\ options \in Options
  /\ env = Env("service", FALSE, FALSE, FALSE)
  /\ tokens = [j \in Jobs |-> NoToken]
  /\ Constructed

PoolNext ==
  \/ PoolRun
  \/ \E w \in Workers : PoolWorkerReply(w)

PoolSpec == PoolInit /\ [][PoolNext]_vars

\* C25: once the pool has a combined result for a job, that result is
\* Cancelled if any worker replied Cancelled, whatever the other workers
\* replied and in whatever order the replies arrived.
C25_AnyCancelsAll ==
  (pool.combined # NoReply /\ \E w \in Workers : pool.replies[w] = Undefined)
    => pool.combined = Undefined

C25_Witness ==
  /\ pool.job = 2 /\ pool.combined = Undefined
  /\ pool.replies[1] = Result(<<TsDiagnostic>>, <<LintWarning>>)
  /\ pool.replies[2] = Undefined
  /\ pool.replies[3] = Result(<<>>, <<>>)

\* ------------------------------------------------------ the partitions
\* createChecker in the process with work number w
CreateChecker(w) ==
  /\ w < WORK_DIVISION(config)
  /\ w \notin partition.started
  /\ partition' =
       [partition EXCEPT
          !.started = @ \cup {w},
          !.owned[w] = Owned(partition.files,
                             workNumber(WORK_NUMBER(config, w)),
                             workDivision(WORK_DIVISION(config)))]
  /\ events' = {} /\ lastRun' = NoRun
  /\ UNCHANGED <<wrapper, pool, setup, options, env, phase, ctrl, tokens, nextJob,
                 nextService, chan, procs, runs, compilation>>

PartitionInit ==
  /\ wrapper = NoWrapper
  /\ \E n \in 1..PoolSize :
       config = [ValidConfig EXCEPT !.useTypescriptIncrementalApi = FALSE,
                                    !.workersNumber = n]
  /\ hooks = AllHooks /\ applied = "ok"
  /\ options \in Options
  /\ env = Env("service", FALSE, FALSE, FALSE)
  /\ tokens = [j \in Jobs |-> NoToken]
  /\ pool = NoPool
  /\ \E files \in SUBSET (1..MaxFiles) :
       partition = [NoPartition EXCEPT !.files = files]
  /\ phase = "idle"
  /\ isWatching = FALSE /\ checkDone = FALSE /\ compilationDone = FALSE
  /\ cancellationToken = 0
  /\ elapsed = 0
  /\ report = NoReport
  /\ afterCompileCallback = "noop"
  /\ service = 0 /\ serviceRpc = 0
  /\ nextJob = 1 /\ nextService = 1
  /\ procs = [s \in Services |-> NoProc]
  /\ pendingTransactions = [s \in Services |-> {}]
  /\ nextTransactionId = [s \in Services |-> 0]
  /\ reqChan = [s \in Services |-> <<>>]
  /\ repChan = [s \in Services |-> <<>>]
  /\ runs = [s \in Services |-> {}]
  /\ compilation = NewCompilation
  /\ events = {}
  /\ lastRun = NoRun

PartitionNext == \E w \in WorkNumbers : CreateChecker(w)

PartitionSpec == PartitionInit /\ [][PartitionNext]_vars

\* C26: once the checkers of all workers 0..D-1 are created, the file sets
\* they own are pairwise disjoint and their union is the watched file set.
C26_PartitionsCoverDisjointly ==
  LET D == WORK_DIVISION(config)
  IN partition.started = 0..(D - 1)
       => /\ UNION {partition.owned[w] : w \in 0..(D - 1)} = partition.files
          /\ \A v, w \in 0..(D - 1) :
               v # w => partition.owned[v] \cap partition.owned[w] = {}

C26_Witness ==
  /\ WORK_DIVISION(config) = 3
  /\ partition.started = {0, 1, 2}
  /\ partition.files = 1..MaxFiles
  /\ partition.owned[0] = {3} /\ partition.owned[1] = {1, 4}
  /\ partition.owned[2] = {2, 5}

\* C27: in a compile step the cancel notification is about the previous
\* token, raised when that token is already cancellation-requested and still
\* the current one, before the service is forked and the request sent; the
\* serviceStart notification of a fork finds the fresh token current and no
\* request sent yet; the request of the step carries the token created in
\* the step, not requested.  A token becomes requested only in a compile
\* step that replaces it, as the current token, by a newer one.
C27_StartOrder ==
  [][/\ nextJob' = nextJob + 1
          => /\ \A n \in events' : n.hook \in {"cancel", "serviceStart"}
             /\ cancellationToken # 0
                  => /\ tokens'[cancellationToken].requested
                     /\ \E n \in events' :
                          /\ n.hook = "cancel" /\ n.job = cancellationToken
                          /\ n.seen.current = cancellationToken
                          /\ n.seen.token.requested
                          /\ ~n.seen.spawned /\ ~n.seen.sent
             /\ cancellationToken = 0
                  => \A n \in events' : n.hook # "cancel"
             /\ (service = 0 \/ ~procs[service].connected)
                  <=> \E n \in events' :
                        /\ n.hook = "serviceStart"
                        /\ n.seen.current = nextJob
                        /\ n.seen.token = NewToken
                        /\ n.seen.spawned /\ ~n.seen.sent
             /\ cancellationToken' = nextJob
             /\ tokens[nextJob] = NoToken /\ tokens'[nextJob] = NewToken
             /\ \E t \in pendingTransactions'[serviceRpc'] :
                  /\ t.job = nextJob
                  /\ t \notin pendingTransactions[serviceRpc']
     /\ \A j \in Jobs :
          (tokens'[j].requested /\ ~tokens[j].requested)
          => /\ nextJob' = nextJob + 1
             /\ cancellationToken = j /\ cancellationToken' > j]_vars

\* a compile step that has cancelled token 1 and forked a second service
C27_Witness ==
  /\ nextJob = 3 /\ cancellationToken = 2 /\ service = 2
  /\ tokens[1].requested /\ tokens[2] = NewToken
  /\ \E n \in events : n.hook = "cancel" /\ n.job = 1
  /\ \E n \in events : n.hook = "serviceStart" /\ n.job = 2

\* C28: a worker starts a run (and with it checker.nextIteration()) only
\* when no earlier run of it is still suspended in getDiagnostics.
C28_RunsOneAtATime ==
  [][\A s \in Services :
       (/\ procs'[s].state = "alive"
        /\ reqChan[s] # <<>> /\ reqChan'[s] = Tail(reqChan[s])
        /\ Head(reqChan[s]) \in runs'[s])
       => runs[s] = {}]_vars

\* C29: between two compile events the done report is raised at most once,
\* and the callback handed to the afterCompile handler is invoked at most
\* once; a build in synchronous delivery goes on only when it was invoked.
C29_AtMostOneReport ==
  /\ compilation.doneReports <= 1
  /\ compilation.calls <= 1
  /\ (phase = "emitted" /\ ~(isWatching /\ options.async))
       => compilation.calls = 1

\* C30: whenever checkDone is true, elapsed has been set, and neither
\* afterCompileCallback nor doneCallback ever throws 'Execution order error'.
C30_ElapsedSetWhenCheckDone ==
  /\ checkDone => elapsed # 0
  /\ \A n \in events : n.hook # "Execution order error"

\* the afterCompile handler has found the check done and invoked the callback
C30_Witness ==
  /\ checkDone /\ elapsed = LatestJob /\ phase = "emitted"
  /\ compilation.calls = 1 /\ cancellationToken = 0
  /\ \E n \in events : n.hook = "emit" /\ n.job = LatestJob
  /\ \A n \in events : n.hook # "receive"

\* the processes that run and have not been signalled
Alive == {s \in Services : procs[s].state = "alive"}

\* C31: at most one service process is alive at a time and it is the one
\* the service handle and the RPC provider refer to; a process is forked
\* only by a compile step that finds no service or a disconnected one, the
\* fork replaces the handle and the provider together, and every run
\* request is registered with, and sent to, the most recently forked
\* process.
C31_OneServiceAtATime ==
  [][/\ Cardinality(Alive) <= 1
     /\ Cardinality({s \in Services : procs'[s].state = "alive"}) <= 1
     /\ service' = serviceRpc'
     /\ \A s \in Services :
          procs'[s].state = "alive" /\ procs'[s].connected => service' = s
     /\ nextService' # nextService
          => /\ nextJob' = nextJob + 1
             /\ service = 0 \/ ~procs[service].connected
             /\ service' = nextService /\ serviceRpc' = nextService
             /\ nextService' = nextService + 1
     /\ nextJob' = nextJob + 1
          => /\ service' = nextService' - 1
             /\ \E t \in pendingTransactions'[service'] \ pendingTransactions[service'] :
                  t.job = nextJob
             /\ \A s \in Services \ {service'} :
                  /\ pendingTransactions'[s] = pendingTransactions[s]
                  /\ reqChan'[s] = reqChan[s]]_vars

\* a second service has been forked after the first was gone, and two jobs
\* have been dispatched to it
C31_Witness ==
  /\ service = 2 /\ serviceRpc = 2 /\ nextService = 3
  /\ procs[1].state = "dead" /\ procs[2].state = "alive"
  /\ nextTransactionId[2] = 2
  /\ Cardinality(pendingTransactions[2]) = 2

\* a step in which killService is called: the watchClose hook, or the done
\* hook of a build that is not watching
KillStep ==
  \/ \E n \in events' : n.hook = "watchClose"
  \/ phase = "emitted" /\ phase' = "idle" /\ ~isWatching

\* C32: killService changes nothing when there is no service; otherwise it
\* cleans up the current token (if any), kills the process of the service
\* with SIGTERM and clears the service handle and the RPC provider, so that
\* a second call finds no service.  The exit of a process killed that way
\* raises no serviceOutOfMemory notification.
C32_KillServiceOnce ==
  [][/\ (KillStep /\ service = 0)
          => UNCHANGED <<tokens, procs, service, serviceRpc, cancellationToken,
                         chan, runs>>
     /\ (KillStep /\ service # 0)
          => /\ service' = 0 /\ serviceRpc' = 0
             /\ procs'[service].state = "dead"
             /\ procs[service].state = "alive"
                  => procs'[service].signal = "SIGTERM"
             /\ \A s \in Services \ {service} : procs'[s] = procs[s]
             /\ \A j \in Jobs :
                  tokens'[j] = IF j = cancellationToken
                               THEN [tokens[j] EXCEPT !.cleanedUp = TRUE,
                                                      !.cleanups = @ + 1]
                               ELSE tokens[j]
     /\ \A s \in Services :
          (procs'[s].exited /\ ~procs[s].exited /\ procs[s].signal = "SIGTERM")
          => \A n \in events' : n.hook # "serviceOutOfMemory"]_vars

\* killService called a second time, after it has killed the first service
\* with a job outstanding
C32_Witness ==
  /\ \E n \in events : n.hook = "watchClose"
  /\ service = 0 /\ serviceRpc = 0 /\ nextService = 2
  /\ procs[1].state = "dead" /\ procs[1].exited
  /\ tokens[1].cleanups = 1 /\ cancellationToken = 1

\* the plugin kills service s in this step: killService signals a running
\* process with SIGTERM
Kills(s) ==
  /\ procs[s].state = "alive"
  /\ procs'[s].state = "dead" /\ procs'[s].signal = "SIGTERM"

\* C33: in a build that is not watching, the plugin kills the service only
\* in the done event, and by then the result of the job of the build has been
\* received and handed to the afterCompile callback: no request is in
\* flight, running or awaiting its reply.  Holds for async builds and for
\* builds that are not async.
C33_KilledAfterReport ==
  [][~options.watch =>
       \A s \in Services :
         Kills(s) =>
           /\ phase = "emitted" /\ phase' = "idle"
           /\ s = service
           /\ checkDone /\ report.job = LatestJob
           /\ compilation.calls = 1
           /\ pendingTransactions[s] = {}
           /\ reqChan[s] = <<>> /\ runs[s] = {}]_vars

\* an async build that is not watching has ended: its service was killed
\* at done, after the report of its job
C33_Witness ==
  /\ ~options.watch /\ options.async
  /\ phase = "idle" /\ service = 0
  /\ procs[1].state = "dead" /\ procs[1].signal = "SIGTERM"
  /\ report.job = 1 /\ compilation.calls = 1

\* a message of process s is delivered to its 'message' listener in this step
Arrives(s) == repChan[s] # <<>> /\ repChan'[s] = Tail(repChan[s])

\* C34: a message that arrives from a process that is no longer the service
\* (killService has run, or a respawn has replaced it) settles no call, is
\* not handled as a result and raises no exception in the controller.
C34_LateMessageDropped ==
  [][\A s \in Services :
       (Arrives(s) /\ s # service) =>
         /\ UNCHANGED <<pendingTransactions, checkDone, report, elapsed,
                        cancellationToken, tokens, compilation, phase>>
         /\ \A n \in events' : n.hook # "TypeError"]_vars

\* the rules of the records a lint pass returns
Rules(results) == {m.str : m \in UNION {Range(r) : r \in results}}

\* C35: a run without ESLint and without TSLint runs no lint pass and its
\* result has no lints; with ESLint only the ESLint pass runs (also when
\* TSLint is configured too), otherwise the TSLint pass when TSLint is
\* configured; the lint pass runs whenever type checking completed.  A
\* result's diagnostics hold no lint record, and its lints hold only the
\* records of the pass that ran: neither a type diagnostic nor the
\* internal-error record.
C35_LintPassAndLists ==
  RunFinished =>
    LET out == lastRun.out
        p == out.payload
        configured == IF env.ESLINT THEN "eslint"
                      ELSE IF env.TSLINT THEN "tslint" ELSE "none"
    IN /\ out.lintPass \in {"none", configured}
       /\ (lastRun.iter.st = "ok" /\ lastRun.ts.st = "ok")
            => out.lintPass = configured
       /\ p.kind = "result" =>
            /\ configured = "none" => p.lints = <<>>
            /\ \A m \in Range(p.diagnostics) : m.type = "diagnostic"
            /\ \A m \in Range(p.lints) :
                 /\ m.type = "lint" /\ m # InternalError
                 /\ configured = "eslint" => m.str \in Rules(EsLintResults)
                 /\ configured = "tslint" => m.str \in Rules(LintResults)

\* a run with ESLint and TSLint both configured has returned the records of
\* its ESLint pass
C35_Witness ==
  /\ RunFinished /\ env.ESLINT /\ env.TSLINT
  /\ lastRun.out.lintPass = "eslint"
  /\ lastRun.out.payload.kind = "result"
  /\ lastRun.out.payload.lints = <<EsLintWarning>>
  /\ lastRun.out.payload.diagnostics = <<TsDiagnostic>>

Stems == {"a", ".vue"}
Extensions == {".vue", ".ts", ".__fake__"}
FileNames ==
  {<<st>> \o e : st \in Stems, e \in SeqsUpTo(Extensions, MaxExts)}

\* config.wrapExtensions
WrapConfigs == SUBSET {".vue", ".vuex", ".ts"}

\* the patched compiler host asks for a file under its wrapped name
WrapFile ==
  /\ wrapper.stage = "drawn"
  /\ wrapper' =
       [wrapper EXCEPT
          !.wrapped = wrapFileName(wrapper.wrapExtensions, wrapper.fileName),
          !.stage = "wrapped"]
  /\ events' = {} /\ lastRun' = NoRun
  /\ UNCHANGED <<partition, pool, setup, options, env, phase, ctrl, tokens,
                 nextJob, nextService, chan, procs, runs, compilation>>

\* the wrapped name is given to unwrapFileName
UnwrapFile ==
  /\ wrapper.stage = "wrapped"
  /\ wrapper' =
       [wrapper EXCEPT
          !.unwrapped = unwrapFileName(wrapper.wrapExtensions, wrapper.wrapped),
          !.stage = "unwrapped"]
  /\ events' = {} /\ lastRun' = NoRun
  /\ UNCHANGED <<partition, pool, setup, options, env, phase, ctrl, tokens,
                 nextJob, nextService, chan, procs, runs, compilation>>

\* a run of the service whose type check reports a diagnostic of the file,
\* under the name the compiler host knows it by; the service wraps with the
\* extensions of its environment
RunOnWrapped ==
  /\ wrapper.stage = "unwrapped"
  /\ wrapper.wrapExtensions = WrapExtensions(env)
  /\ \E lint \in {Ok(l) : l \in PassResults(lintPass(env))} \cup {Fault} :
       LET ts == Ok(<<[TsDiagnostic EXCEPT !.file = wrapper.wrapped]>>)
       IN lastRun' = [job |-> 1, iter |-> Ok(<<>>), ts |-> ts, lint |-> lint,
                      requested |-> FALSE,
                      out |-> run(env, Ok(<<>>), ts, lint, FALSE)]
  /\ wrapper' = [wrapper EXCEPT !.stage = "ran"]
  /\ events' = {}
  /\ UNCHANGED <<partition, pool, setup, options, env, phase, ctrl, tokens,
                 nextJob, nextService, chan, procs, runs, compilation>>

\* Any file name and any wrapExtensions; the service is one started with
\* vue enabled.
WrapInit ==
  /\ config = ValidConfig
  /\ hooks = AllHooks /\ applied = "ok"
  /\ options \in {o \in Options : ~o.async /\ ~o.watch}
  /\ env \in {e \in Envs : e.VUE}
  /\ tokens = [j \in Jobs |-> NoToken]
  /\ \E f \in FileNames, w \in WrapConfigs :
       wrapper = [NoWrapper EXCEPT !.wrapExtensions = w, !.fileName = f,
                                   !.stage = "drawn"]
  /\ partition = NoPartition
  /\ pool = NoPool
  /\ phase = "idle"
  /\ isWatching = FALSE /\ checkDone = FALSE /\ compilationDone = FALSE
  /\ cancellationToken = 0
  /\ elapsed = 0
  /\ report = NoReport
  /\ afterCompileCallback = "noop"
  /\ service = 0 /\ serviceRpc = 0
  /\ nextJob = 1 /\ nextService = 1
  /\ procs = [s \in Services |-> NoProc]
  /\ pendingTransactions = [s \in Services |-> {}]
  /\ nextTransactionId = [s \in Services |-> 0]
  /\ reqChan = [s \in Services |-> <<>>]
  /\ repChan = [s \in Services |-> <<>>]
  /\ runs = [s \in Services |-> {}]
  /\ compilation = NewCompilation
  /\ events = {}
  /\ lastRun = NoRun

WrapNext ==
  \/ WrapFile
  \/ UnwrapFile
  \/ RunOnWrapped

WrapSpec == WrapInit /\ [][WrapNext]_vars

\* the file name was changed by wrapFileName
WasWrapped == wrapper.wrapped # wrapper.fileName

\* C37: unwrapFileName gives back the file name that wrapFileName was given,
\* for every file name and every wrapExtensions; wrapFileName changes a file
\* name only if it ends with one of the wrap extensions; and the result of
\* a run of a service that wraps carries no wrapped file name.
C37_WrapRoundTrip ==
  /\ wrapper.stage \in {"unwrapped", "ran"}
       => wrapper.unwrapped = wrapper.fileName
  /\ (wrapper.stage # "drawn" /\ WasWrapped)
       => \E ext \in wrapper.wrapExtensions :
            EndsWith(wrapper.fileName, <<ext>>)
  /\ (wrapper.stage = "ran" /\ WasWrapped
        /\ lastRun.out.payload.kind = "result")
       => \A m \in Range(lastRun.out.payload.diagnostics)
                     \cup Range(lastRun.out.payload.lints) :
            m.file # wrapper.wrapped

\* The round trip alone.  It is lost for a name that already ends with a
\* wrap extension followed by .__fake__.ts (wrapFileName leaves it,
\* unwrapFileName shortens it) and for a dot file named like a wrap extension
\* (wrapFileName wraps it, path.extname finds no extension to unwrap).
WrapRoundTrip ==
  wrapper.stage \in {"unwrapped", "ran"}
    => wrapper.unwrapped = wrapper.fileName

\* The wrapped names in the result of a run alone.  A run whose lint pass
\* throws skips the unwrapping and returns the diagnostics as collected.
ResultCarriesNoWrappedName ==
  (wrapper.stage = "ran" /\ WasWrapped
    /\ lastRun.out.payload.kind = "result")
    => \A m \in Range(lastRun.out.payload.diagnostics)
                  \cup Range(lastRun.out.payload.lints) :
         m.file # wrapper.wrapped

\* wrapFileName changes only names that end with a wrap extension
WrapsOnlyWrapExtensions ==
  (wrapper.stage # "drawn" /\ WasWrapped)
    => \E ext \in wrapper.wrapExtensions : EndsWith(wrapper.fileName, <<ext>>)

====
